---- MODULE Spec2Model ----
(***************************************************************************)
(* A model of the benchmark coordination engine of helmit,                 *)
(* pkg/benchmark/coordinator.go: one WorkerTask driving its pool of W      *)
(* workers through SetupSuite, SetupWorker, SetupBenchmark, RunBenchmark,  *)
(* the aggregation of the workers' results, the report, the latency        *)
(* threshold and the tear down.  Every goroutine the task starts is a      *)
(* process of the model; the WaitGroup, the channels and the variable      *)
(* `err` that the goroutines of setupWorkers and setupBenchmark share are  *)
(* state.  The Coordinator that builds one WorkerTask per suite and joins   *)
(* them in runWorkers is a second specification, SpecCoordinator; the      *)
(* fan-out and join primitives of internal/console/context.go (Fork, Run,  *)
(* Join, Wait, Close) are a third one, SpecConsole; the createWorker calls *)
(* by which the tasks of the suites start the jobs of their workers, with  *)
(* the Env map they are given, are a fourth one, SpecProvision.            *)
(***************************************************************************)
EXTENDS Integers, Sequences, FiniteSets, TLC

\* ------------------------------------------------------------------ bounds

\* The largest worker pool (config.Workers) the model draws.
MaxWorkers == 2

\* The number of benchmarks registered for the suite.
NumBenchmarks == 2

\* The number of benchmark suites registered (registry.GetBenchmarkSuites()).
NumSuites == 2

\* The largest number of Fork or Run calls a client of the console makes.
NumOps == 3

\* The largest number of Join or Wait calls made on one Joiner or Waiter.
MaxWaits == 2

\* ------------------------------------------------------- integers of Go

\* Go's int, uint32 and time.Duration are wider than the integers of the
\* model checker, so a count is kept as two limbs <<hi, lo>> of 16 bits:
\* the value is hi * 2^16 + lo, with 0 <= lo < 2^16.
Limb == 2^16

BigNorm(h, l) == <<h + (l \div Limb), l % Limb>>

BigAdd(a, b) == BigNorm(a[1] + b[1], a[2] + b[2])

\* a / w of Go for a >= 0 and a small w >= 1: the quotient, truncated.
BigDiv(a, w) == <<a[1] \div w, (((a[1] % w) * Limb) + a[2]) \div w>>

\* The conversion uint32(x): x modulo 2^32, that is the high limb modulo 2^16.
Uint32(a) == <<a[1] % Limb, a[2]>>

\* uint32 addition (requests += result.Requests) wraps modulo 2^32.
Uint32Add(a, b) == Uint32(BigAdd(a, b))

Zero == <<0, 0>>

\* ------------------------------------------------------------- values

\* The nil of an error and of a pointer; a pointer that is set is <<v>>.
Nil == <<>>

\* An error names the step that failed, its benchmark and its worker ordinal.
Err(kind, benchmark, worker) == <<kind, benchmark, worker>>

\* config.Benchmark = "": no single benchmark is configured.
NoBenchmark == 0

\* The benchmarks of the suite, named 1..NumBenchmarks, in registration order.
getBenchmarks == [k \in 1..NumBenchmarks |-> k]

\* The total iteration counts (config.Iterations, a Go int of 64 bits) the
\* model draws: 5 and 2^32 + 1.
IterationsSet == {<<0, 5>>, <<Limb, 1>>}

\* The RunResponse messages a worker may answer with.  Requests is a uint32;
\* the durations and latencies are time.Duration counts, not negative (a
\* worker measures them as elapsed time) and far below 2^53, where the
\* conversions to and from float64 are exact.
ResponseSet ==
    { [requests |-> <<0, 5>>, duration |-> 0, latency |-> 1,
       latency50 |-> 1, latency75 |-> 1, latency95 |-> 2, latency99 |-> 2],
      [requests |-> <<0, 3>>, duration |-> 1, latency |-> 2,
       latency50 |-> 1, latency75 |-> 2, latency95 |-> 3, latency99 |-> 5],
      [requests |-> <<Limb \div 2, 0>>, duration |-> 2, latency |-> 4,
       latency50 |-> 3, latency75 |-> 4, latency95 |-> 6, latency99 |-> 9] }

\* time.Second and time.Millisecond: a time.Duration counts nanoseconds.
Second == 10^9

Millisecond == 10^6

\* The answers of two workers that each ran 100 of 200 requests: in 1s with a
\* mean latency of 10ms, and in 2s with a mean latency of 20ms.
ScenarioResponses ==
    { [requests |-> <<0, 100>>, duration |-> Second, latency |-> 10 * Millisecond,
       latency50 |-> 8 * Millisecond, latency75 |-> 12 * Millisecond,
       latency95 |-> 20 * Millisecond, latency99 |-> 25 * Millisecond],
      [requests |-> <<0, 100>>, duration |-> 2 * Second, latency |-> 20 * Millisecond,
       latency50 |-> 16 * Millisecond, latency75 |-> 24 * Millisecond,
       latency95 |-> 30 * Millisecond, latency99 |-> 35 * Millisecond] }

NoResponse ==
    [requests |-> Zero, duration |-> 0, latency |-> 0,
     latency50 |-> 0, latency75 |-> 0, latency95 |-> 0, latency99 |-> 0]

\* The configurations of a WorkerTask (the Config that Coordinator.Run builds).
Configs ==
    [Workers : 1..MaxWorkers, Iterations : IterationsSet,
     Benchmark : {NoBenchmark, NumBenchmarks}, MaxLatency : {Nil, <<3>>}]

\* The configurations of a task that runs the one benchmark "Get" (named 1)
\* with 200 iterations, without a latency threshold or with one of 10ms.
ScenarioConfigs ==
    [Workers : 1..MaxWorkers, Iterations : {<<0, 200>>},
     Benchmark : {1}, MaxLatency : {Nil, <<10 * Millisecond>>}]

\* The RunResponse messages the workers of a task of configuration c may
\* answer with.
Responses(c) ==
    IF c \in ScenarioConfigs THEN ScenarioResponses \cup ResponseSet ELSE ResponseSet

Ordinals == 0..(MaxWorkers - 1)

Phases == {"SetupSuite", "SetupWorker", "SetupBenchmark", "RunBenchmark"}

RpcKeys == Phases \X (0..NumBenchmarks) \X Ordinals

\* ------------------------------------------------------------- state

VARIABLES
    config,     \* t.config
    pc,         \* where the goroutine that runs WorkerTask.Run stands
    runErr,     \* the error t.run() returns to Run (Nil while it runs)
    ret,        \* what Run returned: <<>> before, then <<[status, err]>>
    tornDown,   \* the number of t.tearDown() calls made
    workers,    \* t.workers: Nil, or the handles by position (each the ordinal it dials)
    dialed,     \* per ordinal, the number of grpc.Dial calls made for it
    dialLog,    \* the addresses grpc.Dial was called with, in the order of the calls
    phase,      \* the fan-out under way: SetupWorker, SetupBenchmark or RunBenchmark
    bench,      \* the position in the benchmark list of the benchmark under way
    spawned,    \* how many iterations of the `for _, worker := range workers` loop ran
    wg,         \* the counter of the WaitGroup
    err,        \* the variable err of setupWorkers / setupBenchmark, shared with its goroutines
    errCh,      \* the values in errCh
    resultCh,   \* the values in resultCh
    closed,     \* whether the channels of the fan-out are closed
    g,          \* per ordinal, the goroutine started for that worker
    results,    \* the results collected by runBenchmarks
    reports,    \* the number of times the table was written
    rpc         \* per RPC (phase, benchmark, ordinal): calls issued, outcome, request count

\* The state of Coordinator.Run and runWorkers.
VARIABLES
    suite,      \* c.config.Suite: NoSuite, or the one suite to run
    cpc,        \* where the goroutine that runs Coordinator.Run and runWorkers stands
    tasks,      \* the list of WorkerTasks Coordinator.Run built (each the suite it runs)
    launched,   \* how many iterations of the `for _, task := range tasks` loop ran
    taskWg,     \* the counter of the WaitGroup of runWorkers
    errChan,    \* the values in errChan
    codeChan,   \* the values in codeChan
    errSent,    \* every error sent on errChan, in the order of the sends
    codesRead,  \* the number of values runWorkers received from codeChan
    chanClosed, \* which of errChan and codeChan are closed
    closer,     \* where the goroutine that closes the channels stands
    tg,         \* per suite, the goroutine runWorkers started for the suite's task
    outcome,    \* how runWorkers ended, <<kind, value>>: running, error, nil or exit
    jobStatus   \* per suite, the exit status the job of the suite's task ends with

\* The state of the console: a Context, the operations its client launched
\* with Fork or Run, and the client's calls of Join and Wait.
VARIABLES
    scopeKind,  \* what the client launches with: "Fork" (a Joiner) or "Run" (a Waiter)
    forked,     \* the number of Fork / Run calls made; call k returned joiner k
    op,         \* per call, the goroutine it started and the report of its scope
    chans,      \* per channel made by a call, the values in it and whether it is closed,
                \* with the numbers of sends and of close calls made on it
    client,     \* the client's goroutine: ready, or inside Join(joiners...) / Wait(waiters...)
    waits,      \* per joiner, the results its Join() / Wait() calls returned, in order
    joined,     \* what Join(joiners...) / Wait(waiters...) returned: <<>> before, then <<[n, err]>>
    stopped     \* Context.Close was called on the root Context: its reporter is stopped

\* The provisioning of the worker pools: the createWorker calls of the tasks
\* Coordinator.Run built, one task per suite, and the jobs they start.
VARIABLES
    envNil,     \* c.config.Config.Env is nil (each task's config.Env is that same value)
    iterAsync,  \* how async.IterAsync runs its calls: "sequential" or "concurrent"
    sharedEnv,  \* the map c.config.Config.Env, when it is not nil: per key its value or Nil
    tp,         \* per suite, where its task stands: created, createWorkers, provisioned
    cw,         \* per suite and ordinal, the createWorker call: its position and own map
    started,    \* per suite and ordinal, <<>> or <<the job as StartJob received it>>
    fault       \* the runtime ended the process: concurrent map writes

\* The variables of a WorkerTask.
task ==
    <<config, pc, runErr, ret, tornDown, workers, dialed, dialLog, phase, bench, spawned,
      wg, err, errCh, resultCh, closed, g, results, reports, rpc>>

\* The variables of the Coordinator.
coordinator ==
    <<suite, cpc, tasks, launched, taskWg, errChan, codeChan, errSent, codesRead,
      chanClosed, closer, tg, outcome, jobStatus>>

\* The variables of the provisioning.
provision == <<envNil, iterAsync, sharedEnv, tp, cw, started, fault>>

\* The variables of the console.
console == <<scopeKind, forked, op, chans, client, waits, joined, stopped>>

vars == <<task, coordinator, console, provision>>

\* A goroutine that was not started.
NoGoroutine == [pc |-> "none", requests |-> Zero, err |-> Nil, res |-> NoResponse]

\* A WorkerTask as Coordinator.Run builds it, with a configuration of C.
TaskInit(C) ==
    /\ config \in C
    /\ pc = "CreateNamespace"
    /\ runErr = Nil
    /\ ret = <<>>
    /\ tornDown = 0
    /\ workers = Nil
    /\ dialed = [i \in Ordinals |-> 0]
    /\ dialLog = <<>>
    /\ phase = "none"
    /\ bench = 0
    /\ spawned = 0
    /\ wg = 0
    /\ err = Nil
    /\ errCh = <<>>
    /\ resultCh = <<>>
    /\ closed = FALSE
    /\ g = [i \in Ordinals |-> NoGoroutine]
    /\ results = <<>>
    /\ reports = 0
    /\ rpc = [k \in RpcKeys |-> [n |-> 0, st |-> "none", req |-> Zero]]

\* No suite is configured: every registered suite is run.
NoSuite == 0

\* A task goroutine that runWorkers did not start.
NoTaskGoroutine == [pc |-> "none", launches |-> 0, steps |-> <<>>, err |-> Nil, status |-> 0]

\* The Coordinator before Run is called, for a c.config.Suite of S and the
\* jobs ending with an exit status of X.
CoordinatorInit(S, X) ==
    /\ suite \in S
    /\ cpc = "Run"
    /\ tasks = <<>>
    /\ launched = 0
    /\ taskWg = 0
    /\ errChan = <<>>
    /\ codeChan = <<>>
    /\ errSent = <<>>
    /\ codesRead = 0
    /\ chanClosed = [c \in {"errChan", "codeChan"} |-> FALSE]
    /\ closer = "none"
    /\ tg = [s \in 1..NumSuites |-> NoTaskGoroutine]
    /\ outcome = <<"running", 0>>
    /\ jobStatus \in [1..NumSuites -> X]

\* An operation that was not launched.
NoOp == [pc |-> "none", result |-> Nil, value |-> Nil, report |-> "none"]

\* A Context (NewContext) with nothing launched, for a client that uses the
\* launchers in K.
ConsoleInit(K) ==
    /\ scopeKind \in K
    /\ forked = 0
    /\ op = [o \in 1..NumOps |-> NoOp]
    /\ chans = [c \in 1..NumOps |-> [buf |-> <<>>, closed |-> FALSE, sends |-> 0, closes |-> 0]]
    /\ client = [pc |-> "ready", n |-> 0, k |-> 0, err |-> Nil]
    /\ waits = [o \in 1..NumOps |-> <<>>]
    /\ joined = <<>>
    /\ stopped = FALSE

\* The keys createWorker sets in the environment of a job: config.NamespaceEnv,
\* benchmarkTypeEnv, benchmarkWorkerEnv and benchmarkJobEnv.
EnvKeys == <<"NamespaceEnv", "benchmarkTypeEnv", "benchmarkWorkerEnv", "benchmarkJobEnv">>

\* A map with none of the keys of createWorker: make(map[string]string), and
\* the configured Env before the first createWorker.
NoEnv == [k \in {EnvKeys[n] : n \in 1..Len(EnvKeys)} |-> Nil]

\* A createWorker call that was not made.
NoCall == [pc |-> "none", own |-> NoEnv, err |-> Nil]

\* The tasks as Coordinator.Run built them, none of them provisioned, for a
\* configured Env that is nil or not (N) and an async.IterAsync of a kind in A.
ProvisionInit(N, A) ==
    /\ envNil \in N
    /\ iterAsync \in A
    /\ sharedEnv = NoEnv
    /\ tp = [s \in 1..NumSuites |-> "created"]
    /\ cw = [s \in 1..NumSuites |-> [i \in Ordinals |-> NoCall]]
    /\ started = [s \in 1..NumSuites |-> [i \in Ordinals |-> <<>>]]
    /\ fault = FALSE

Init ==
    /\ TaskInit(Configs)
    /\ CoordinatorInit({NoSuite}, {0})
    /\ ConsoleInit({"Fork"})
    /\ ProvisionInit({TRUE}, {"concurrent"})

\* The variables of a fan-out, left alone by the steps outside it.
fanout == <<phase, spawned, wg, err, errCh, resultCh, closed, g>>

\* t.run() returns e: Run goes on to tearDown.
RunReturns(e) ==
    /\ runErr' = e
    /\ pc' = "tearDown"

\* ------------------------------------------------- the handles of the pool

\* The identifier of a test run, c.config.ID.
TestID == "test"

\* newJobID: "%s-%s" of the test's identifier and the suite.
newJobID(testID, s) == <<testID, s>>

\* t.config.ID of the task: the job identifier Coordinator.Run made for its
\* suite, which is also the namespace of its workers.
ID == newJobID(TestID, 1)

\* getWorkerName: "worker-%d".
getWorkerName(worker) == <<"worker", worker>>

\* getWorkerAddress: "%s.%s.svc.cluster.local:5000" of the worker's name and
\* t.config.ID.
getWorkerAddress(worker) == <<getWorkerName(worker), ID>>

\* NewWorkerServiceClient over the connection grpc.Dial made to an address:
\* the handle reaches the worker that the address names, and is written here
\* as that worker's ordinal.
NewWorkerServiceClient(address) == address[1][2]

\* A getWorkers that keeps the handles made before the Dial that failed.
getWorkersPartial ==
    LET W == config.Workers
        Dials(last) == [i \in Ordinals |-> IF i <= last THEN dialed[i] + 1 ELSE dialed[i]]
        Log(last) == dialLog \o [k \in 1..(last + 1) |-> getWorkerAddress(k - 1)]
        Clients == [k \in 1..W |-> NewWorkerServiceClient(getWorkerAddress(k - 1))]
    IN  IF workers # Nil
        THEN {[ws |-> workers, err |-> Nil, cache |-> workers, dials |-> dialed,
               log |-> dialLog]}
        ELSE {[ws |-> Clients, err |-> Nil, cache |-> Clients, dials |-> Dials(W - 1),
               log |-> Log(W - 1)]}
             \cup {[ws |-> SubSeq(Clients, 1, f), err |-> Err("Dial", NoBenchmark, f),
                    cache |-> SubSeq(Clients, 1, f), dials |-> Dials(f), log |-> Log(f)] :
                       f \in 0..(W - 1)}

\* A getWorkers that dials on every call, whether t.workers is set or not.
getWorkersDialing ==
    LET W == config.Workers
        Dials(last) == [i \in Ordinals |-> IF i <= last THEN dialed[i] + 1 ELSE dialed[i]]
        Log(last) == dialLog \o [k \in 1..(last + 1) |-> getWorkerAddress(k - 1)]
        Clients == [k \in 1..W |-> NewWorkerServiceClient(getWorkerAddress(k - 1))]
    IN  {[ws |-> Clients, err |-> Nil, cache |-> Clients, dials |-> Dials(W - 1),
          log |-> Log(W - 1)]}
        \cup {[ws |-> Nil, err |-> Err("Dial", NoBenchmark, f),
               cache |-> workers, dials |-> Dials(f), log |-> Log(f)] : f \in 0..(W - 1)}

\* getWorkers: the outcomes of one call.  With t.workers set it is returned
\* as it is.  Otherwise the ordinals 0..W-1 are dialed in order; the first
\* Dial that fails, at ordinal f, ends the call with that error and leaves
\* t.workers unset; when none fails the list is stored in t.workers.
getWorkers ==
    LET W == config.Workers
        Dials(last) == [i \in Ordinals |-> IF i <= last THEN dialed[i] + 1 ELSE dialed[i]]
        Log(last) == dialLog \o [k \in 1..(last + 1) |-> getWorkerAddress(k - 1)]
        Clients == [k \in 1..W |-> NewWorkerServiceClient(getWorkerAddress(k - 1))]
    IN  IF workers # Nil
        THEN {[ws |-> workers, err |-> Nil, cache |-> workers, dials |-> dialed,
               log |-> dialLog]}
        ELSE {[ws |-> Clients, err |-> Nil, cache |-> Clients, dials |-> Dials(W - 1),
               log |-> Log(W - 1)]}
             \cup {[ws |-> Nil, err |-> Err("Dial", NoBenchmark, f),
                    cache |-> Nil, dials |-> Dials(f), log |-> Log(f)] : f \in 0..(W - 1)}

\* A runBenchmarks that runs all the benchmarks of the suite, whatever is
\* configured.
BenchListAll == getBenchmarks

\* The benchmarks runBenchmarks runs: the configured one, or all of the suite.
BenchList ==
    IF config.Benchmark # NoBenchmark THEN <<config.Benchmark>> ELSE getBenchmarks

\* The benchmark under way (NoBenchmark in setupWorkers).
Benchmark == IF phase = "SetupWorker" \/ bench = 0 THEN NoBenchmark ELSE BenchList[bench]

\* An RPC is issued / returns.
Issue(key, req) == [rpc EXCEPT ![key] = [n |-> @.n + 1, st |-> "inflight", req |-> req]]
Returned(key, ok) == [rpc EXCEPT ![key].st = IF ok THEN "ok" ELSE "fail"]

\* ------------------------------------------------------------- run()

\* run: t.runner.CreateNamespace()
CreateNamespace ==
    /\ pc = "CreateNamespace"
    /\ \E ok \in BOOLEAN :
          IF ok THEN pc' = "createWorkers" /\ runErr' = runErr
                ELSE RunReturns(Err("CreateNamespace", NoBenchmark, 0))
    /\ UNCHANGED <<coordinator, console, provision, config, ret, tornDown, workers, dialed, dialLog, bench, results, reports, rpc>>
    /\ UNCHANGED fanout

\* run: t.createWorkers(), the jobs of the W workers are started or one fails.
createWorkers ==
    /\ pc = "createWorkers"
    /\ \E ok \in BOOLEAN :
          IF ok THEN pc' = "setupSuite" /\ runErr' = runErr
                ELSE RunReturns(Err("createWorkers", NoBenchmark, 0))
    /\ UNCHANGED <<coordinator, console, provision, config, ret, tornDown, workers, dialed, dialLog, bench, results, reports, rpc>>
    /\ UNCHANGED fanout

\* A setupSuite that calls the last worker of the list.
SuiteWorkerLast(ws) == ws[Len(ws)]

\* The handle setupSuite calls: workers[0], the first of the list.
SuiteWorker(ws) == ws[1]

\* setupSuite: getWorkers, then the SetupSuite call on workers[0] is issued.
setupSuite ==
    /\ pc = "setupSuite"
    /\ \E o \in getWorkers :
          /\ workers' = o.cache
          /\ dialed' = o.dials
          /\ dialLog' = o.log
          /\ IF o.err # Nil
             THEN RunReturns(o.err) /\ rpc' = rpc
             ELSE /\ rpc' = Issue(<<"SetupSuite", NoBenchmark, SuiteWorker(o.ws)>>, Zero)
                  /\ pc' = "setupSuiteReturn"
                  /\ runErr' = runErr
    /\ UNCHANGED <<coordinator, console, provision, config, ret, tornDown, bench, results, reports>>
    /\ UNCHANGED fanout

\* setupSuite: the SetupSuite call returns; its error is the error of setupSuite.
setupSuiteReturn ==
    /\ pc = "setupSuiteReturn"
    /\ \E ok \in BOOLEAN :
          LET key == <<"SetupSuite", NoBenchmark, SuiteWorker(workers)>> IN
          /\ rpc' = Returned(key, ok)
          /\ IF ok THEN pc' = "setupWorkers" /\ runErr' = runErr
                   ELSE RunReturns(Err("SetupSuite", NoBenchmark, SuiteWorker(workers)))
    /\ UNCHANGED <<coordinator, console, provision, config, ret, tornDown, workers, dialed, dialLog, bench, results, reports>>
    /\ UNCHANGED fanout

\* ----------------------------------------------------------- fan-out

\* The capacity of errCh: make(chan error) in setupWorkers and setupBenchmark,
\* make(chan error, len(workers)) in runBenchmark.
ErrChCap(ph, ws) == IF ph = "RunBenchmark" THEN Len(ws) ELSE 0

\* The entry of setupWorkers, setupBenchmark and of the second half of
\* runBenchmark: getWorkers, a new WaitGroup and new channels; the loop over
\* the workers is next.
Enter(ph) ==
    \E o \in getWorkers :
       /\ workers' = o.cache
       /\ dialed' = o.dials
       /\ dialLog' = o.log
       /\ IF o.err # Nil
          THEN RunReturns(o.err) /\ UNCHANGED fanout
          ELSE /\ phase' = ph
               /\ spawned' = 0
               /\ wg' = 0
               /\ err' = o.err
               /\ errCh' = <<>>
               /\ resultCh' = <<>>
               /\ closed' = FALSE
               /\ g' = [i \in Ordinals |-> NoGoroutine]
               /\ pc' = "spawn"
               /\ runErr' = runErr

\* runBenchmarks: setupSuite returned nil, setupWorkers begins.
setupWorkers ==
    /\ pc = "setupWorkers"
    /\ Enter("SetupWorker")
    /\ UNCHANGED <<coordinator, console, provision, config, ret, tornDown, bench, results, reports, rpc>>

\* runBenchmarks: setupWorkers returned nil; the list of results is made and
\* the first benchmark is taken (the configured one, or the first of the suite).
runBenchmarks ==
    /\ pc = "runBenchmarks"
    /\ results' = <<>>
    /\ IF Len(BenchList) = 0
       THEN bench' = bench /\ pc' = "report"
       ELSE bench' = 1 /\ pc' = "setupBenchmark"
    /\ UNCHANGED <<coordinator, console, provision, config, runErr, ret, tornDown, workers, dialed, dialLog, reports, rpc>>
    /\ UNCHANGED fanout

\* runBenchmark: setupBenchmark(benchmark) begins.
setupBenchmark ==
    /\ pc = "setupBenchmark"
    /\ Enter("SetupBenchmark")
    /\ UNCHANGED <<coordinator, console, provision, config, ret, tornDown, bench, results, reports, rpc>>

\* runBenchmark: setupBenchmark returned nil; getWorkers and the channels of
\* runBenchmark.
runBenchmark ==
    /\ pc = "runBenchmark"
    /\ Enter("RunBenchmark")
    /\ UNCHANGED <<coordinator, console, provision, config, ret, tornDown, bench, results, reports, rpc>>

\* The request count handed to each goroutine of runBenchmark:
\* t.config.Iterations / len(workers), evaluated by the go statement.
RequestsPerWorker(iterations, ws) == BigDiv(iterations, Len(ws))

\* One iteration of `for _, worker := range workers`: wg.Add(1) and the go
\* statement; after the last one the goroutine stands at wg.Wait().
Spawn ==
    /\ pc = "spawn"
    /\ spawned < Len(workers)
    /\ LET worker == workers[spawned + 1] IN
       g' = [g EXCEPT ![worker] =
                [pc |-> "start",
                 requests |-> IF phase = "RunBenchmark"
                              THEN RequestsPerWorker(config.Iterations, workers)
                              ELSE Zero,
                 err |-> Nil, res |-> NoResponse]]
    /\ wg' = wg + 1
    /\ spawned' = spawned + 1
    /\ pc' = IF spawned + 1 = Len(workers) THEN "wait" ELSE "spawn"
    /\ UNCHANGED <<coordinator, console, provision, config, runErr, ret, tornDown, workers, dialed, dialLog, bench, results, reports, rpc>>
    /\ UNCHANGED <<phase, err, errCh, resultCh, closed>>

\* ------------------------------------------- the goroutine of one worker

\* The Requests field of the RunRequest: uint32(requests).
RunRequestRequests(requests) == Uint32(requests)

\* The goroutine issues its RPC: SetupWorker, SetupBenchmark or RunBenchmark.
Call(i) ==
    /\ g[i].pc = "start"
    /\ g' = [g EXCEPT ![i].pc = "inflight"]
    /\ rpc' = Issue(<<phase, Benchmark, i>>,
                    IF phase = "RunBenchmark" THEN RunRequestRequests(g[i].requests) ELSE Zero)
    /\ UNCHANGED <<coordinator, console, provision, config, pc, runErr, ret, tornDown, workers, dialed, dialLog, bench, results, reports>>
    /\ UNCHANGED <<phase, spawned, wg, err, errCh, resultCh, closed>>

\* The RPC returns.  In setupWorkers and setupBenchmark its error is assigned
\* to the err of the enclosing function (`_, err = worker.SetupWorker(...)`),
\* which all the goroutines share; in runBenchmark result and err are the
\* goroutine's own (`result, err := worker.RunBenchmark(...)`).
Reply(i) ==
    /\ g[i].pc = "inflight"
    /\ \E ok \in BOOLEAN, r \in Responses(config) :
          LET e == IF ok THEN Nil ELSE Err(phase, Benchmark, i) IN
          /\ rpc' = Returned(<<phase, Benchmark, i>>, ok)
          /\ IF phase = "RunBenchmark"
             THEN /\ g' = [g EXCEPT ![i].pc = "check", ![i].err = e,
                                    ![i].res = IF ok THEN r ELSE NoResponse]
                  /\ err' = err
             ELSE /\ g' = [g EXCEPT ![i].pc = "check"]
                  /\ err' = e
    /\ UNCHANGED <<coordinator, console, provision, config, pc, runErr, ret, tornDown, workers, dialed, dialLog, bench, results, reports>>
    /\ UNCHANGED <<phase, spawned, wg, errCh, resultCh, closed>>

\* The err that `if err != nil` of goroutine i reads: the shared variable in
\* setupWorkers and setupBenchmark, its own in runBenchmark.
ErrRead(i) == IF phase = "RunBenchmark" THEN g[i].err ELSE err

\* `if err != nil`: on to the send on errCh, else to the send on resultCh
\* (runBenchmark) or to wg.Done() (setupWorkers, setupBenchmark).
Check(i) ==
    /\ g[i].pc = "check"
    /\ g' = [g EXCEPT ![i].pc =
                IF ErrRead(i) # Nil
                THEN (IF phase = "RunBenchmark" THEN "sendErr" ELSE "operand")
                ELSE (IF phase = "RunBenchmark" THEN "sendResult" ELSE "wgDone")]
    /\ UNCHANGED <<coordinator, console, provision, config, pc, runErr, ret, tornDown, workers, dialed, dialLog, bench, results, reports, rpc>>
    /\ UNCHANGED <<phase, spawned, wg, err, errCh, resultCh, closed>>

\* `errCh <- err` in setupWorkers and setupBenchmark: the operand is a second
\* read of the shared err.
SendOperand(i) ==
    /\ g[i].pc = "operand"
    /\ g' = [g EXCEPT ![i].pc = "sendErr", ![i].err = err]
    /\ UNCHANGED <<coordinator, console, provision, config, pc, runErr, ret, tornDown, workers, dialed, dialLog, bench, results, reports, rpc>>
    /\ UNCHANGED <<phase, spawned, wg, err, errCh, resultCh, closed>>

\* A send on errCh can complete: there is room in its buffer, or (a channel
\* without buffer) a goroutine stands at a receive from it, which only the
\* `for err := range errCh` of the function that started the goroutines is.
CanSendErr == Len(errCh) < ErrChCap(phase, workers) \/ (pc = "range" /\ ~closed)

\* `errCh <- err` completes.
SendErr(i) ==
    /\ g[i].pc = "sendErr"
    /\ CanSendErr
    /\ errCh' = Append(errCh, g[i].err)
    /\ g' = [g EXCEPT ![i].pc = "wgDone"]
    /\ UNCHANGED <<coordinator, console, provision, config, pc, runErr, ret, tornDown, workers, dialed, dialLog, bench, results, reports, rpc>>
    /\ UNCHANGED <<phase, spawned, wg, err, resultCh, closed>>

\* `resultCh <- result` completes (resultCh has room for len(workers) values).
SendResult(i) ==
    /\ g[i].pc = "sendResult"
    /\ Len(resultCh) < Len(workers)
    /\ resultCh' = Append(resultCh, g[i].res)
    /\ g' = [g EXCEPT ![i].pc = "wgDone"]
    /\ UNCHANGED <<coordinator, console, provision, config, pc, runErr, ret, tornDown, workers, dialed, dialLog, bench, results, reports, rpc>>
    /\ UNCHANGED <<phase, spawned, wg, err, errCh, closed>>

\* wg.Done(): the goroutine ends.
Done(i) ==
    /\ g[i].pc = "wgDone"
    /\ wg' = wg - 1
    /\ g' = [g EXCEPT ![i].pc = "exited"]
    /\ UNCHANGED <<coordinator, console, provision, config, pc, runErr, ret, tornDown, workers, dialed, dialLog, bench, results, reports, rpc>>
    /\ UNCHANGED <<phase, spawned, err, errCh, resultCh, closed>>

\* ------------------------------------------------ the join of a fan-out

\* wg.Wait() returns when the counter is zero.
Wait ==
    /\ pc = "wait"
    /\ wg = 0
    /\ pc' = "close"
    /\ UNCHANGED <<coordinator, console, provision, config, runErr, ret, tornDown, workers, dialed, dialLog, bench, results, reports, rpc>>
    /\ UNCHANGED fanout

\* close(errCh) (and close(resultCh) in runBenchmark).
Close ==
    /\ pc = "close"
    /\ closed' = TRUE
    /\ pc' = "range"
    /\ UNCHANGED <<coordinator, console, provision, config, runErr, ret, tornDown, workers, dialed, dialLog, bench, results, reports, rpc>>
    /\ UNCHANGED <<phase, spawned, wg, err, errCh, resultCh, g>>

\* `for err := range errCh { return err }`: the first value received is
\* returned; with errCh closed and empty the loop ends and the function goes
\* on.  An error returned by setupWorkers, setupBenchmark or runBenchmark is
\* returned by runBenchmarks and by run.
Range ==
    /\ pc = "range"
    /\ Len(errCh) > 0 \/ closed
    /\ LET e == IF Len(errCh) > 0 THEN Head(errCh) ELSE Nil IN
       IF e # Nil
       THEN RunReturns(e)
       ELSE /\ runErr' = runErr
            /\ pc' = CASE phase = "SetupWorker" -> "runBenchmarks"
                       [] phase = "SetupBenchmark" -> "runBenchmark"
                       [] OTHER -> "aggregate"
    /\ errCh' = IF Len(errCh) > 0 THEN Tail(errCh) ELSE errCh
    /\ UNCHANGED <<coordinator, console, provision, config, ret, tornDown, workers, dialed, dialLog, bench, results, reports, rpc>>
    /\ UNCHANGED <<phase, spawned, wg, err, resultCh, closed, g>>

\* ------------------------------------------------------- aggregation

\* A duration that adds up instead of taking the maximum.
MaxAsSum(a, b) == a + b

\* A duration that keeps the value received last.
MaxAsLast(a, b) == b

\* math.Max on the float64 of two durations (exact below 2^53).
Max(a, b) == IF a >= b THEN a ELSE b

RECURSIVE GCD(_, _)
GCD(a, b) == IF b = 0 THEN a ELSE GCD(b, a % b)

\* float64(duration) / float64(time.Second): the seconds of a duration, the
\* fraction <<a, b>> = a / b in lowest terms (<<0, 1>> for no time at all).
Seconds(duration) ==
    LET d == GCD(duration, Second) IN <<duration \div d, Second \div d>>

\* float64(requests) / seconds: the quotient of a request count (a uint32,
\* exact as a float64) by the seconds of the duration.  The quotient is kept
\* by its numerator and its denominator: it is the number q with
\* q * seconds = requests, +Inf or NaN when the duration is 0.
Throughput(requests, duration) == [requests |-> requests, seconds |-> Seconds(duration)]

\* A mean latency that is the sum of the workers' latencies, not divided.
MeanAsSum(sum, n) == sum

\* time.Duration(float64(sum) / float64(n)): the quotient, truncated.
MeanDuration(sum, n) == sum \div n

\* The sums runBenchmark starts from.
NoSums ==
    [duration |-> 0, requests |-> Zero, latencySum |-> 0, latency50Sum |-> 0,
     latency75Sum |-> 0, latency95Sum |-> 0, latency99Sum |-> 0]

\* The body of `for result := range resultCh`.
Accumulate(acc, result) ==
    [duration |-> Max(acc.duration, result.duration),
     requests |-> Uint32Add(acc.requests, result.requests),
     latencySum |-> acc.latencySum + result.latency,
     latency50Sum |-> acc.latency50Sum + result.latency50,
     latency75Sum |-> acc.latency75Sum + result.latency75,
     latency95Sum |-> acc.latency95Sum + result.latency95,
     latency99Sum |-> acc.latency99Sum + result.latency99]

\* The loop over resultCh, in the order the values arrived.
RECURSIVE SumResults(_, _)
SumResults(ch, acc) ==
    IF ch = <<>> THEN acc ELSE SumResults(Tail(ch), Accumulate(acc, Head(ch)))

\* The result runBenchmark returns for the values in resultCh and n = len(workers).
Aggregate(benchmark, ch, n) ==
    LET sums == SumResults(ch, NoSums) IN
    [benchmark |-> benchmark,
     requests |-> sums.requests,
     duration |-> sums.duration,
     throughput |-> Throughput(sums.requests, sums.duration),
     meanLatency |-> MeanDuration(sums.latencySum, n),
     latencyPercentiles |->
        [p50 |-> MeanDuration(sums.latency50Sum, n),
         p75 |-> MeanDuration(sums.latency75Sum, n),
         p95 |-> MeanDuration(sums.latency95Sum, n),
         p99 |-> MeanDuration(sums.latency99Sum, n)]]

\* runBenchmark: no error was received, the results are summed up and the
\* result is returned; runBenchmarks appends it and takes the next benchmark
\* of the suite, or writes the report after the last one.
aggregate ==
    /\ pc = "aggregate"
    /\ results' = Append(results, Aggregate(Benchmark, resultCh, Len(workers)))
    /\ resultCh' = <<>>
    /\ IF bench < Len(BenchList)
       THEN bench' = bench + 1 /\ pc' = "setupBenchmark"
       ELSE bench' = bench /\ pc' = "report"
    /\ UNCHANGED <<coordinator, console, provision, config, runErr, ret, tornDown, workers, dialed, dialLog, reports, rpc>>
    /\ UNCHANGED <<phase, spawned, wg, err, errCh, closed, g>>

\* runBenchmarks: the table is written, one row per result.
report ==
    /\ pc = "report"
    /\ reports' = reports + 1
    /\ pc' = "checkLatency"
    /\ UNCHANGED <<coordinator, console, provision, config, runErr, ret, tornDown, workers, dialed, dialLog, bench, results, rpc>>
    /\ UNCHANGED fanout

\* A threshold that a mean latency has to exceed, not only to reach.
LatencyErrorAbove(rs, maxLatency) ==
    LET over == {k \in 1..Len(rs) : maxLatency # Nil /\ rs[k].meanLatency > maxLatency[1]}
    IN  IF over = {} THEN Nil
        ELSE Err("MaxLatency", rs[CHOOSE k \in over : \A j \in over : k <= j].benchmark, 0)

\* The error of the loop over the results that ends runBenchmarks: the first
\* result whose mean latency is at or above *MaxLatency, else nil.
LatencyError(rs, maxLatency) ==
    LET over == {k \in 1..Len(rs) : maxLatency # Nil /\ rs[k].meanLatency >= maxLatency[1]}
    IN  IF over = {} THEN Nil
        ELSE Err("MaxLatency", rs[CHOOSE k \in over : \A j \in over : k <= j].benchmark, 0)

\* runBenchmarks: the latency threshold; runBenchmarks and run return.
checkLatency ==
    /\ pc = "checkLatency"
    /\ RunReturns(LatencyError(results, config.MaxLatency))
    /\ UNCHANGED <<coordinator, console, provision, config, ret, tornDown, workers, dialed, dialLog, bench, results, reports, rpc>>
    /\ UNCHANGED fanout

\* ------------------------------------------------------------- Run()

\* A Run whose error path returns without `_ = t.tearDown()`.
tearDownNotOnError ==
    /\ pc = "tearDown"
    /\ tornDown' = IF runErr # Nil THEN tornDown ELSE tornDown + 1
    /\ pc' = "return"
    /\ UNCHANGED <<coordinator, console, provision, config, runErr, ret, workers, dialed, dialLog, bench, results, reports, rpc>>
    /\ UNCHANGED fanout

\* Run: t.run() has returned; `_ = t.tearDown()`, on the error path and on
\* the other alike.
tearDown ==
    /\ pc = "tearDown"
    /\ tornDown' = tornDown + 1
    /\ pc' = "return"
    /\ UNCHANGED <<coordinator, console, provision, config, runErr, ret, workers, dialed, dialLog, bench, results, reports, rpc>>
    /\ UNCHANGED fanout

\* Run returns (0, err).
Run ==
    /\ pc = "return"
    /\ ret' = <<[status |-> 0, err |-> runErr]>>
    /\ pc' = "done"
    /\ UNCHANGED <<coordinator, console, provision, config, runErr, tornDown, workers, dialed, dialLog, bench, results, reports, rpc>>
    /\ UNCHANGED fanout

\* ------------------------------------------------------ specification

\* A step of the goroutine that runs WorkerTask.Run.
Task ==
    \/ CreateNamespace
    \/ createWorkers
    \/ setupSuite
    \/ setupSuiteReturn
    \/ setupWorkers
    \/ runBenchmarks
    \/ setupBenchmark
    \/ runBenchmark
    \/ Spawn
    \/ Wait
    \/ Close
    \/ Range
    \/ aggregate
    \/ report
    \/ checkLatency
    \/ tearDown
    \/ Run

\* A step of the goroutine started for worker i.
Goroutine(i) ==
    \/ Call(i)
    \/ Reply(i)
    \/ Check(i)
    \/ SendOperand(i)
    \/ SendErr(i)
    \/ SendResult(i)
    \/ Done(i)

Next == Task \/ \E i \in Ordinals : Goroutine(i)

Spec == Init /\ [][Next]_vars

\* The task of the scenario configurations, from the state after construction.
InitScenario ==
    /\ TaskInit(ScenarioConfigs)
    /\ CoordinatorInit({NoSuite}, {0})
    /\ ConsoleInit({"Fork"})
    /\ ProvisionInit({TRUE}, {"concurrent"})

SpecScenario == InitScenario /\ [][Next]_vars

\* Every goroutine that can take a step takes one, and every RPC returns.
FairSpec == Spec /\ WF_vars(Task) /\ \A i \in Ordinals : WF_vars(Goroutine(i))

\* ------------------------------------------- Coordinator and runWorkers

\* The suites registered, named 1..NumSuites (registry.GetBenchmarkSuites()).
GetBenchmarkSuites == [k \in 1..NumSuites |-> k]

\* The suites Coordinator.Run runs: all that are registered, or the one configured.
Suites == IF suite = NoSuite THEN GetBenchmarkSuites ELSE <<suite>>

\* The exit statuses a job may end with (get_status of the job runner).
ExitCodes == {0, 2}

\* The error a failed run() of the task of suite s returns.
TaskError(s) == <<"run", s>>

\* runWorkers has not ended the process (os.Exit ends every goroutine).
Alive == outcome[1] # "exit"

\* Coordinator.Run: one WorkerTask per suite, in the order of the suites;
\* runWorkers is called with the list and makes its WaitGroup and channels.
CoordinatorRun ==
    /\ cpc = "Run"
    /\ tasks' = [i \in 1..Len(Suites) |-> Suites[i]]
    /\ cpc' = IF Len(Suites) = 0 THEN "go" ELSE "launch"
    /\ UNCHANGED <<suite, launched, taskWg, errChan, codeChan, errSent, codesRead,
                   chanClosed, closer, tg, outcome, jobStatus>>
    /\ UNCHANGED <<task, console, provision>>

\* A go statement whose function literal reads the loop variable when it
\* runs, after the loop has ended: the task of every goroutine is the last one.
LaunchedLast(ts, k) == ts[Len(ts)]

\* The task handed to the goroutine of iteration k: `go func(task *WorkerTask)
\* {...}(task)` evaluates its argument at the go statement.
Launched(ts, k) == ts[k]

\* One iteration of `for _, task := range tasks`: wg.Add(1) and the go statement.
Launch ==
    /\ cpc = "launch"
    /\ launched < Len(tasks)
    /\ LET s == Launched(tasks, launched + 1) IN
       tg' = [tg EXCEPT ![s].pc = "Run", ![s].launches = @ + 1]
    /\ taskWg' = taskWg + 1
    /\ launched' = launched + 1
    /\ cpc' = IF launched + 1 = Len(tasks) THEN "go" ELSE "launch"
    /\ UNCHANGED <<suite, tasks, errChan, codeChan, errSent, codesRead, chanClosed,
                   closer, outcome, jobStatus>>
    /\ UNCHANGED <<task, console, provision>>

\* `go func() { wg.Wait(); close(errChan); close(codeChan) }()`; runWorkers
\* goes on to `for err := range errChan`.
GoCloser ==
    /\ cpc = "go"
    /\ closer' = "wait"
    /\ cpc' = "rangeErr"
    /\ UNCHANGED <<suite, tasks, launched, taskWg, errChan, codeChan, errSent, codesRead,
                   chanClosed, tg, outcome, jobStatus>>
    /\ UNCHANGED <<task, console, provision>>

\* task.Run() of the goroutine for suite s: t.run() returns, with an error or
\* without.
TaskRun(s) ==
    /\ Alive
    /\ tg[s].pc = "Run"
    /\ \E ok \in BOOLEAN :
          tg' = [tg EXCEPT ![s].pc = "tearDown",
                           ![s].steps = Append(@, "run"),
                           ![s].err = IF ok THEN Nil ELSE TaskError(s)]
    /\ UNCHANGED <<suite, cpc, tasks, launched, taskWg, errChan, codeChan, errSent,
                   codesRead, chanClosed, closer, outcome, jobStatus>>
    /\ UNCHANGED <<task, console, provision>>

\* task.Run(): `_ = t.tearDown()`.
TaskTearDown(s) ==
    /\ Alive
    /\ tg[s].pc = "tearDown"
    /\ tg' = [tg EXCEPT ![s].pc = "return", ![s].steps = Append(@, "tearDown")]
    /\ UNCHANGED <<suite, cpc, tasks, launched, taskWg, errChan, codeChan, errSent,
                   codesRead, chanClosed, closer, outcome, jobStatus>>
    /\ UNCHANGED <<task, console, provision>>

\* A Run that returns the exit status of the task's job.
TaskReturnJobStatus(s) ==
    /\ Alive
    /\ tg[s].pc = "return"
    /\ tg' = [tg EXCEPT ![s].pc = "send", ![s].steps = Append(@, "return"),
                         ![s].status = jobStatus[s]]
    /\ UNCHANGED <<suite, cpc, tasks, launched, taskWg, errChan, codeChan, errSent,
                   codesRead, chanClosed, closer, outcome, jobStatus>>
    /\ UNCHANGED <<task, console, provision>>

\* task.Run() returns (0, err): `status, err := task.Run()`.
TaskReturn(s) ==
    /\ Alive
    /\ tg[s].pc = "return"
    /\ tg' = [tg EXCEPT ![s].pc = "send", ![s].steps = Append(@, "return"), ![s].status = 0]
    /\ UNCHANGED <<suite, cpc, tasks, launched, taskWg, errChan, codeChan, errSent,
                   codesRead, chanClosed, closer, outcome, jobStatus>>
    /\ UNCHANGED <<task, console, provision>>

\* `if err != nil { errChan <- err } else { codeChan <- status }`: both
\* channels have room for len(tasks) values.
TaskSend(s) ==
    /\ Alive
    /\ tg[s].pc = "send"
    /\ IF tg[s].err # Nil
       THEN /\ Len(errChan) < Len(tasks)
            /\ errChan' = Append(errChan, tg[s].err)
            /\ errSent' = Append(errSent, tg[s].err)
            /\ codeChan' = codeChan
       ELSE /\ Len(codeChan) < Len(tasks)
            /\ codeChan' = Append(codeChan, tg[s].status)
            /\ UNCHANGED <<errChan, errSent>>
    /\ tg' = [tg EXCEPT ![s].pc = "wgDone"]
    /\ UNCHANGED <<suite, cpc, tasks, launched, taskWg, codesRead, chanClosed, closer,
                   outcome, jobStatus>>
    /\ UNCHANGED <<task, console, provision>>

\* wg.Done(): the goroutine of the task ends.
TaskDone(s) ==
    /\ Alive
    /\ tg[s].pc = "wgDone"
    /\ taskWg' = taskWg - 1
    /\ tg' = [tg EXCEPT ![s].pc = "exited"]
    /\ UNCHANGED <<suite, cpc, tasks, launched, errChan, codeChan, errSent, codesRead,
                   chanClosed, closer, outcome, jobStatus>>
    /\ UNCHANGED <<task, console, provision>>

\* A closing goroutine that does not wait for the tasks.
CloserWaitNot ==
    /\ Alive
    /\ closer = "wait"
    /\ closer' = "closeErr"
    /\ UNCHANGED <<suite, cpc, tasks, launched, taskWg, errChan, codeChan, errSent,
                   codesRead, chanClosed, tg, outcome, jobStatus>>
    /\ UNCHANGED <<task, console, provision>>

\* The closing goroutine: wg.Wait() returns when the counter is zero.
CloserWait ==
    /\ Alive
    /\ closer = "wait"
    /\ taskWg = 0
    /\ closer' = "closeErr"
    /\ UNCHANGED <<suite, cpc, tasks, launched, taskWg, errChan, codeChan, errSent,
                   codesRead, chanClosed, tg, outcome, jobStatus>>
    /\ UNCHANGED <<task, console, provision>>

\* The closing goroutine: close(errChan).
CloseErrChan ==
    /\ Alive
    /\ closer = "closeErr"
    /\ chanClosed' = [chanClosed EXCEPT !["errChan"] = TRUE]
    /\ closer' = "closeCode"
    /\ UNCHANGED <<suite, cpc, tasks, launched, taskWg, errChan, codeChan, errSent,
                   codesRead, tg, outcome, jobStatus>>
    /\ UNCHANGED <<task, console, provision>>

\* The closing goroutine: close(codeChan), and it ends.
CloseCodeChan ==
    /\ Alive
    /\ closer = "closeCode"
    /\ chanClosed' = [chanClosed EXCEPT !["codeChan"] = TRUE]
    /\ closer' = "exited"
    /\ UNCHANGED <<suite, cpc, tasks, launched, taskWg, errChan, codeChan, errSent,
                   codesRead, tg, outcome, jobStatus>>
    /\ UNCHANGED <<task, console, provision>>

\* A loop that returns the value received last.
ReceivedLast(ch) == ch[Len(ch)]

\* The value a receive from a channel yields: the one sent first.
Received(ch) == Head(ch)

\* `for err := range errChan { return err }`: the first error received is
\* returned; with errChan closed and empty the loop ends.
RangeErrChan ==
    /\ cpc = "rangeErr"
    /\ Len(errChan) > 0 \/ chanClosed["errChan"]
    /\ IF Len(errChan) > 0
       THEN /\ outcome' = <<"error", Received(errChan)>>
            /\ errChan' = Tail(errChan)
            /\ cpc' = "returned"
       ELSE /\ cpc' = "rangeCode"
            /\ UNCHANGED <<outcome, errChan>>
    /\ UNCHANGED <<suite, tasks, launched, taskWg, codeChan, errSent, codesRead,
                   chanClosed, closer, tg, jobStatus>>
    /\ UNCHANGED <<task, console, provision>>

\* `for code := range codeChan { if code != 0 { os.Exit(code) } }; return nil`.
RangeCodeChan ==
    /\ cpc = "rangeCode"
    /\ Len(codeChan) > 0 \/ chanClosed["codeChan"]
    /\ IF Len(codeChan) > 0
       THEN /\ codeChan' = Tail(codeChan)
            /\ codesRead' = codesRead + 1
            /\ IF Received(codeChan) # 0
               THEN outcome' = <<"exit", Received(codeChan)>> /\ cpc' = "exited"
               ELSE UNCHANGED <<outcome, cpc>>
       ELSE /\ outcome' = <<"nil", 0>>
            /\ cpc' = "returned"
            /\ UNCHANGED <<codeChan, codesRead>>
    /\ UNCHANGED <<suite, tasks, launched, taskWg, errChan, errSent, chanClosed,
                   closer, tg, jobStatus>>
    /\ UNCHANGED <<task, console, provision>>

\* A step of the goroutine that runs Coordinator.Run and runWorkers.
Coordinator ==
    \/ CoordinatorRun
    \/ Launch
    \/ GoCloser
    \/ RangeErrChan
    \/ RangeCodeChan

\* A step of the goroutine started for the task of suite s.
TaskGoroutine(s) ==
    \/ TaskRun(s)
    \/ TaskTearDown(s)
    \/ TaskReturn(s)
    \/ TaskSend(s)
    \/ TaskDone(s)

\* A step of the goroutine that closes the channels.
Closer ==
    \/ CloserWait
    \/ CloseErrChan
    \/ CloseCodeChan

NextCoordinator == Coordinator \/ Closer \/ \E s \in 1..NumSuites : TaskGoroutine(s)

\* The Coordinator of a run for all suites or for one of them; the WorkerTask
\* modelled step by step above is left as it was built.
InitCoordinator ==
    /\ TaskInit({[Workers |-> 1, Iterations |-> <<0, 5>>,
                  Benchmark |-> NoBenchmark, MaxLatency |-> Nil]})
    /\ CoordinatorInit({NoSuite} \cup (1..NumSuites), ExitCodes)
    /\ ConsoleInit({"Fork"})
    /\ ProvisionInit({TRUE}, {"concurrent"})

SpecCoordinator == InitCoordinator /\ [][NextCoordinator]_vars

\* ------------------------------------- console: Fork, Run, Join, Wait

\* The error the function of call o returns when it fails.
OpError(o) == <<"f", o>>

\* One channel that every call sends its result on.
ChanShared(o) == 1

\* The channel of call o: each Fork and each Run makes its own,
\* `ch := make(chan error, 1)`.
Chan(o) == o

\* Fork / Run: the scope is made (and a progress report started), the channel
\* is made, the goroutine is started and the Joiner / Waiter is returned.
Start ==
    /\ client.pc = "ready"
    /\ ~stopped
    /\ forked < NumOps
    /\ forked' = forked + 1
    /\ op' = [op EXCEPT ![forked + 1] =
                 [pc |-> "f", result |-> Nil, value |-> Nil,
                  report |-> IF scopeKind = "Fork" THEN "started" ELSE "new"]]
    /\ UNCHANGED <<scopeKind, chans, client, waits, joined, stopped>>
    /\ UNCHANGED <<task, coordinator, provision>>

\* Context.Fork(desc, f).
Fork == scopeKind = "Fork" /\ Start

\* Context.Run(f).
ContextRun == scopeKind = "Run" /\ Start

\* The goroutine of call o: f returns, with an error or without; a function
\* run under a status scope has reported a message (status.Report) or none.
OpReturn(o) ==
    /\ op[o].pc = "f"
    /\ \E ok \in BOOLEAN, said \in BOOLEAN :
          /\ (scopeKind = "Fork" => ~said)
          /\ op' = [op EXCEPT ![o].pc = "returned",
                               ![o].result = IF ok THEN Nil ELSE OpError(o),
                               ![o].value = IF said THEN <<"message">> ELSE Nil,
                               ![o].report = IF said THEN "message" ELSE @]
    /\ UNCHANGED <<scopeKind, forked, chans, client, waits, joined, stopped>>
    /\ UNCHANGED <<task, coordinator, provision>>

\* The goroutine of call o records the outcome in its scope: report.Done()
\* without an error; with one, report.Error(err) in Fork, and in Run
\* report.Update(message <- error) if a message was reported.
OpRecord(o) ==
    /\ op[o].pc = "returned"
    /\ op' = [op EXCEPT
                 ![o].pc = IF op[o].result # Nil THEN "send" ELSE "close",
                 ![o].report = IF op[o].result = Nil THEN "done"
                               ELSE IF scopeKind = "Fork" THEN "error"
                               ELSE IF op[o].value # Nil THEN "message and error"
                               ELSE @]
    /\ UNCHANGED <<scopeKind, forked, chans, client, waits, joined, stopped>>
    /\ UNCHANGED <<task, coordinator, provision>>

\* The goroutine of call o: `ch <- err` (the channel has room for one value).
OpSend(o) ==
    /\ op[o].pc = "send"
    /\ ~chans[Chan(o)].closed
    /\ Len(chans[Chan(o)].buf) < 1
    /\ chans' = [chans EXCEPT ![Chan(o)].buf = Append(@, op[o].result),
                               ![Chan(o)].sends = @ + 1]
    /\ op' = [op EXCEPT ![o].pc = "close"]
    /\ UNCHANGED <<scopeKind, forked, client, waits, joined, stopped>>
    /\ UNCHANGED <<task, coordinator, provision>>

\* The goroutine of call o: the deferred close(ch); the goroutine ends.
OpClose(o) ==
    /\ op[o].pc = "close"
    /\ chans' = [chans EXCEPT ![Chan(o)].closed = TRUE, ![Chan(o)].closes = @ + 1]
    /\ op' = [op EXCEPT ![o].pc = "exited"]
    /\ UNCHANGED <<scopeKind, forked, client, waits, joined, stopped>>
    /\ UNCHANGED <<task, coordinator, provision>>

\* `<-w.ch` can return: a value is in the channel, or it is closed.
CanReceive(o) == Len(chans[Chan(o)].buf) > 0 \/ chans[Chan(o)].closed

\* What `<-w.ch` returns: the value in the channel, or nil from a closed and
\* empty channel.
Receive(o) == IF Len(chans[Chan(o)].buf) > 0 THEN Head(chans[Chan(o)].buf) ELSE Nil

\* The channel after the receive.
Taken(o) ==
    [chans EXCEPT ![Chan(o)].buf = IF Len(@) > 0 THEN Tail(@) ELSE @]

\* channelJoiner.Join / channelWaiter.Wait on joiner o, called by the client
\* on its own: `return <-w.ch`.
JoinOne(o) ==
    /\ client.pc = "ready"
    /\ o <= forked
    /\ Len(waits[o]) < MaxWaits
    /\ CanReceive(o)
    /\ waits' = [waits EXCEPT ![o] = Append(@, Receive(o))]
    /\ chans' = Taken(o)
    /\ UNCHANGED <<scopeKind, forked, op, client, joined, stopped>>
    /\ UNCHANGED <<task, coordinator, provision>>

\* A loop that keeps the first error.
KeptFirst(kept, e) == IF kept # Nil THEN kept ELSE e

\* `if e := joiner.Join(); e != nil { err = e }`: the err after the iteration.
Kept(kept, e) == IF e # Nil THEN e ELSE kept

\* Join(joiners...) / Wait(waiters...) is called with the joiners of all the
\* calls made so far, in their order, none of them joined before.
JoinBegin ==
    /\ client.pc = "ready"
    /\ forked >= 1
    /\ joined = <<>>
    /\ \A o \in 1..NumOps : waits[o] = <<>>
    /\ client' = [pc |-> "join", n |-> forked, k |-> 1, err |-> Nil]
    /\ UNCHANGED <<scopeKind, forked, op, chans, waits, joined, stopped>>
    /\ UNCHANGED <<task, coordinator, provision>>

\* One iteration of `for _, joiner := range joiners`; after the last one
\* Join / Wait returns err.
JoinNext ==
    /\ client.pc = "join"
    /\ CanReceive(client.k)
    /\ LET e == Kept(client.err, Receive(client.k)) IN
       IF client.k < client.n
       THEN /\ client' = [client EXCEPT !.k = @ + 1, !.err = e]
            /\ joined' = joined
       ELSE /\ client' = [client EXCEPT !.pc = "ready", !.err = e]
            /\ joined' = <<[n |-> client.n, err |-> e]>>
    /\ waits' = [waits EXCEPT ![client.k] = Append(@, Receive(client.k))]
    /\ chans' = Taken(client.k)
    /\ UNCHANGED <<scopeKind, forked, op, stopped>>
    /\ UNCHANGED <<task, coordinator, provision>>

\* Context.Close on the root Context, whose closer is reporter.Stop:
\* `if c.closer != nil { c.closer() }`. The call waits for no goroutine and
\* receives from no channel: the Context keeps neither. The client launches
\* nothing on a Context it closed.
ContextClose ==
    /\ client.pc = "ready"
    /\ ~stopped
    /\ stopped' = TRUE
    /\ UNCHANGED <<scopeKind, forked, op, chans, client, waits, joined>>
    /\ UNCHANGED <<task, coordinator, provision>>

\* A step of the client of the console.
Client ==
    \/ Fork
    \/ ContextRun
    \/ ContextClose
    \/ JoinBegin
    \/ JoinNext
    \/ \E o \in 1..NumOps : JoinOne(o)

\* A step of the goroutine that Fork / Run started for call o.
OpGoroutine(o) ==
    \/ OpReturn(o)
    \/ OpRecord(o)
    \/ OpSend(o)
    \/ OpClose(o)

NextConsole == Client \/ \E o \in 1..NumOps : OpGoroutine(o)

\* A client that launches with Fork or with Run; the WorkerTask and the
\* Coordinator above are left as they were built.
InitConsole ==
    /\ TaskInit({[Workers |-> 1, Iterations |-> <<0, 5>>,
                  Benchmark |-> NoBenchmark, MaxLatency |-> Nil]})
    /\ CoordinatorInit({NoSuite}, {0})
    /\ ConsoleInit({"Fork", "Run"})
    /\ ProvisionInit({TRUE}, {"concurrent"})

SpecConsole == InitConsole /\ [][NextConsole]_vars

\* ------------------------------- provisioning: createWorkers, createWorker

\* fmt.Sprintf("%d", n) of an n that is not negative: its decimal digits.
RECURSIVE Sprintf(_)
Sprintf(n) == IF n < 10 THEN <<n>> ELSE Sprintf(n \div 10) \o <<n % 10>>

\* The value createWorker(worker) of the task of suite s sets for a key.
EnvValue(key, s, worker) ==
    CASE key = "NamespaceEnv" -> newJobID(TestID, s)
      [] key = "benchmarkTypeEnv" -> "worker"
      [] key = "benchmarkWorkerEnv" -> Sprintf(worker)
      [] key = "benchmarkJobEnv" -> newJobID(TestID, s)

\* The env of the createWorker call (s, i): `env := t.config.Env`, the map
\* all the tasks were given, or the call's own `make(map[string]string)` when
\* that is nil.
Env(s, i) == IF envNil THEN cw[s][i].own ELSE sharedEnv

\* The createWorker call (s, i) stands at one of its writes to env: the
\* position of the key it writes next, 0 when it stands elsewhere.
WriteAt(s, i) ==
    IF \E n \in 1..Len(EnvKeys) : cw[s][i].pc = EnvKeys[n]
    THEN CHOOSE n \in 1..Len(EnvKeys) : cw[s][i].pc = EnvKeys[n]
    ELSE 0

\* The task of suite s reaches t.createWorkers(): async.IterAsync is called
\* with t.config.Workers and t.createWorker.
createWorkersBegin(s) ==
    /\ ~fault
    /\ tp[s] = "created"
    /\ tp' = [tp EXCEPT ![s] = "createWorkers"]
    /\ UNCHANGED <<envNil, iterAsync, sharedEnv, cw, started, fault>>
    /\ UNCHANGED <<task, coordinator, console>>

\* async.IterAsync calls createWorker(i): in any order and at any time when
\* it runs its calls concurrently, one after the other in the order of the
\* ordinals when it does not.  The call takes its env: t.config.Env, or a
\* new map if that is nil.
createWorker(s, i) ==
    /\ ~fault
    /\ tp[s] = "createWorkers"
    /\ i < config.Workers
    /\ cw[s][i].pc = "none"
    /\ (iterAsync = "sequential" => \A j \in 0..(i - 1) : cw[s][j].pc = "done")
    /\ cw' = [cw EXCEPT ![s][i] = [pc |-> EnvKeys[1], own |-> NoEnv, err |-> Nil]]
    /\ UNCHANGED <<envNil, iterAsync, sharedEnv, tp, started, fault>>
    /\ UNCHANGED <<task, coordinator, console>>

\* createWorker(i): one of the four `env[key] = value`.
EnvWrite(s, i) ==
    /\ ~fault
    /\ WriteAt(s, i) > 0
    /\ LET n == WriteAt(s, i)
           key == EnvKeys[n]
           next == IF n < Len(EnvKeys) THEN EnvKeys[n + 1] ELSE "StartJob"
       IN  IF envNil
           THEN /\ cw' = [cw EXCEPT ![s][i].pc = next,
                                    ![s][i].own[key] = EnvValue(key, s, i)]
                /\ sharedEnv' = sharedEnv
           ELSE /\ cw' = [cw EXCEPT ![s][i].pc = next]
                /\ sharedEnv' = [sharedEnv EXCEPT ![key] = EnvValue(key, s, i)]
    /\ UNCHANGED <<envNil, iterAsync, tp, started, fault>>
    /\ UNCHANGED <<task, coordinator, console>>

\* Two createWorker calls stand at a write to the one map they share: the
\* writes are not synchronized, and the runtime may end the process with
\* "concurrent map writes".
MapFault ==
    /\ ~fault
    /\ ~envNil
    /\ \E s1 \in 1..NumSuites, s2 \in 1..NumSuites, i1 \in Ordinals, i2 \in Ordinals :
          /\ <<s1, i1>> # <<s2, i2>>
          /\ WriteAt(s1, i1) > 0
          /\ WriteAt(s2, i2) > 0
    /\ fault' = TRUE
    /\ UNCHANGED <<envNil, iterAsync, sharedEnv, tp, cw, started>>
    /\ UNCHANGED <<task, coordinator, console>>

\* createWorker(i): the job is built with `Env: env` and given to
\* t.runner.StartJob, which starts it with the env as it is then, in the
\* namespace of the task's runner; createWorker returns its error.
StartJob(s, i) ==
    /\ ~fault
    /\ cw[s][i].pc = "StartJob"
    /\ started' = [started EXCEPT ![s][i] =
                      <<[ID |-> getWorkerName(i), namespace |-> newJobID(TestID, s),
                         Env |-> Env(s, i)]>>]
    /\ \E ok \in BOOLEAN :
          cw' = [cw EXCEPT ![s][i].pc = "done",
                           ![s][i].err = IF ok THEN Nil ELSE Err("StartJob", NoBenchmark, i)]
    /\ UNCHANGED <<envNil, iterAsync, sharedEnv, tp, fault>>
    /\ UNCHANGED <<task, coordinator, console>>

\* async.IterAsync returns when all its calls have: createWorkers returns.
createWorkersReturn(s) ==
    /\ ~fault
    /\ tp[s] = "createWorkers"
    /\ \A i \in Ordinals : i < config.Workers => cw[s][i].pc = "done"
    /\ tp' = [tp EXCEPT ![s] = "provisioned"]
    /\ UNCHANGED <<envNil, iterAsync, sharedEnv, cw, started, fault>>
    /\ UNCHANGED <<task, coordinator, console>>

\* A step of the task of suite s, or of one of its createWorker calls.
Provisioning(s) ==
    \/ createWorkersBegin(s)
    \/ createWorkersReturn(s)
    \/ \E i \in Ordinals : createWorker(s, i) \/ EnvWrite(s, i) \/ StartJob(s, i)

NextProvision == MapFault \/ \E s \in 1..NumSuites : Provisioning(s)

\* The tasks of all the suites, for pools of 1..MaxWorkers workers, a
\* configured Env that is nil or not, and either kind of async.IterAsync.
InitProvision ==
    /\ TaskInit([Workers : 1..MaxWorkers, Iterations : {<<0, 5>>},
                 Benchmark : {NoBenchmark}, MaxLatency : {Nil}])
    /\ CoordinatorInit({NoSuite}, {0})
    /\ ConsoleInit({"Fork"})
    /\ ProvisionInit(BOOLEAN, {"sequential", "concurrent"})

SpecProvision == InitProvision /\ [][NextProvision]_vars

\* ------------------------------------------------------------ claims

\* The ordinals of the task's pool.
Pool == 0..(config.Workers - 1)

Rpc(ph, b, i) == rpc[<<ph, b, i>>]

HasReturned(ph, b, i) == Rpc(ph, b, i).st \in {"ok", "fail"}

\* Run has returned.
RunDone == pc = "done"

\* C1: in every execution of WorkerTask.Run that returns, tearDown is invoked
\* exactly once, and only after run() has returned, whichever step failed.
C1_TearDownOnceAfterRun ==
    /\ tornDown <= 1
    /\ (tornDown > 0 => pc \in {"return", "done"})
    /\ (RunDone => tornDown = 1)

\* C1: Run returned after a RunBenchmark call failed, and tearDown ran once.
C1_Witness ==
    /\ RunDone
    /\ tornDown = 1
    /\ ret[1].err # Nil
    /\ ret[1].err[1] = "RunBenchmark"

\* C2: if one of the W SetupWorker calls fails, Run returns a non-nil error
\* with tearDown invoked exactly once, and the task never blocks for ever in
\* setupWorkers (while Run has not returned, some goroutine can take a step).
C2_SetupWorkerFailureFailsTask ==
    (\E i \in Pool : Rpc("SetupWorker", NoBenchmark, i).st = "fail")
        => /\ (RunDone => ret[1].err # Nil /\ tornDown = 1)
           /\ (RunDone \/ ENABLED Next)

\* setupWorkers has returned nil: runBenchmarks goes on past it.
SetupWorkersReturnedNil ==
    \/ pc \in {"runBenchmarks", "setupBenchmark", "runBenchmark", "aggregate", "report",
               "checkLatency"}
    \/ phase \in {"SetupBenchmark", "RunBenchmark"}

\* setupWorkers has returned the error e.
SetupWorkersReturnedErr ==
    /\ phase = "SetupWorker"
    /\ pc \in {"tearDown", "return", "done"}
    /\ runErr # Nil

\* C3: setupWorkers returns only after all W calls have returned; it returns
\* nil only if every call succeeded, and otherwise the error of a failed call.
C3_SetupWorkersJoin ==
    /\ (SetupWorkersReturnedNil \/ SetupWorkersReturnedErr
          => \A i \in Pool : HasReturned("SetupWorker", NoBenchmark, i))
    /\ (SetupWorkersReturnedNil
          => \A i \in Pool : Rpc("SetupWorker", NoBenchmark, i).st = "ok")
    /\ (SetupWorkersReturnedErr
          => \E i \in Pool : /\ runErr = Err("SetupWorker", NoBenchmark, i)
                             /\ Rpc("SetupWorker", NoBenchmark, i).st = "fail")

\* Some call of phase ph for benchmark b was issued.
Issued(ph, b) == \E i \in Ordinals : Rpc(ph, b, i).n > 0

\* C4: the phases of a task are strictly sequenced: SetupWorker after a
\* successful SetupSuite, SetupBenchmark after W successful SetupWorker,
\* RunBenchmark(b) after W successful SetupBenchmark(b), the next benchmark
\* after the W RunBenchmark calls of the one before have returned, the report
\* and the threshold check after those of the last one have.
C4_PhasesInSequence ==
    /\ (Issued("SetupWorker", NoBenchmark)
          => Rpc("SetupSuite", NoBenchmark, 0).st = "ok")
    /\ \A b \in 1..NumBenchmarks :
          /\ (Issued("SetupBenchmark", b)
                => \A i \in Pool : Rpc("SetupWorker", NoBenchmark, i).st = "ok")
          /\ (Issued("RunBenchmark", b)
                => \A i \in Pool : Rpc("SetupBenchmark", b, i).st = "ok")
    /\ \A k \in 2..Len(BenchList) :
          (Issued("SetupBenchmark", BenchList[k]) \/ Issued("RunBenchmark", BenchList[k])
             => \A i \in Pool : HasReturned("RunBenchmark", BenchList[k - 1], i))
    /\ (reports > 0 \/ pc = "checkLatency"
          => \A i \in Pool : HasReturned("RunBenchmark", BenchList[Len(BenchList)], i))

\* C5: SetupSuite is issued at most once and only to ordinal 0; exactly once
\* when the handles were resolved; its failure fails the task with no
\* SetupWorker, SetupBenchmark or RunBenchmark call issued.
C5_SetupSuiteOnceOnWorkerZero ==
    /\ \A b \in 0..NumBenchmarks, i \in Ordinals :
          Rpc("SetupSuite", b, i).n > 0 => (b = NoBenchmark /\ i = 0)
    /\ Rpc("SetupSuite", NoBenchmark, 0).n <= 1
    /\ (workers # Nil => Rpc("SetupSuite", NoBenchmark, 0).n = 1)
    /\ (Rpc("SetupSuite", NoBenchmark, 0).st = "fail"
          => /\ runErr = Err("SetupSuite", NoBenchmark, 0)
             /\ (RunDone => ret[1].err = Err("SetupSuite", NoBenchmark, 0))
             /\ \A b \in 0..NumBenchmarks :
                   /\ ~Issued("SetupWorker", b)
                   /\ ~Issued("SetupBenchmark", b)
                   /\ ~Issued("RunBenchmark", b))

\* C5: a task of two workers whose SetupSuite call failed has returned.
C5_Witness ==
    /\ RunDone
    /\ config.Workers = 2
    /\ Rpc("SetupSuite", NoBenchmark, 0).n = 1
    /\ Rpc("SetupSuite", NoBenchmark, 0).st = "fail"

\* C6: running a full suite, when a SetupBenchmark or RunBenchmark call for
\* benchmark b fails, no call is issued for a benchmark after b, Run returns
\* an error and tearDown is performed.
C6_FailedBenchmarkAbortsSuite ==
    config.Benchmark = NoBenchmark =>
        \A k \in 1..Len(BenchList) :
            (\E i \in Pool : \/ Rpc("SetupBenchmark", BenchList[k], i).st = "fail"
                             \/ Rpc("RunBenchmark", BenchList[k], i).st = "fail")
              => /\ \A j \in (k + 1)..Len(BenchList) :
                       ~Issued("SetupBenchmark", BenchList[j]) /\ ~Issued("RunBenchmark", BenchList[j])
                 /\ (RunDone => ret[1].err # Nil /\ tornDown = 1)
                 /\ (RunDone \/ ENABLED Next)

\* N mod W and N - s in the two-limb form, for the sum the claim states.
BigMod(a, w) == (((a[1] % w) * Limb) + a[2]) % w

BigSub(a, s) == IF a[2] >= s THEN <<a[1], a[2] - s>> ELSE <<a[1] - 1, a[2] + Limb - s>>

\* The exact sum of the request counts carried by the calls to the workers in S.
RECURSIVE RequestsSent(_, _)
RequestsSent(b, S) ==
    IF S = {} THEN Zero
    ELSE LET i == CHOOSE x \in S : TRUE
         IN  BigAdd(Rpc("RunBenchmark", b, i).req, RequestsSent(b, S \ {i}))

\* C7: for W >= 1 and every N >= 0 each RunBenchmark request carries N div W,
\* so the request counts sent to the W workers add up to N - (N mod W).
C7_RequestsPerWorker ==
    \A b \in 1..NumBenchmarks :
        /\ \A i \in Pool :
              Rpc("RunBenchmark", b, i).n > 0
                 => Rpc("RunBenchmark", b, i).req = BigDiv(config.Iterations, config.Workers)
        /\ ((\A i \in Pool : Rpc("RunBenchmark", b, i).n > 0)
              => RequestsSent(b, Pool)
                   = BigSub(config.Iterations, BigMod(config.Iterations, config.Workers)))

\* runBenchmark has just returned a result: it is the last of results, and
\* g still holds what each worker answered.
Aggregated ==
    /\ phase = "RunBenchmark"
    /\ pc \in {"setupBenchmark", "report", "checkLatency"}
    /\ Len(results) > 0

LastResult == results[Len(results)]

\* The exact sum of the request counts the workers in S reported.
RECURSIVE RequestsReported(_)
RequestsReported(S) ==
    IF S = {} THEN Zero
    ELSE LET i == CHOOSE x \in S : TRUE
         IN  BigAdd(g[i].res.requests, RequestsReported(S \ {i}))

RECURSIVE DurationSum(_)
DurationSum(S) ==
    IF S = {} THEN 0
    ELSE LET i == CHOOSE x \in S : TRUE IN g[i].res.duration + DurationSum(S \ {i})

LongestDuration == CHOOSE d \in {g[i].res.duration : i \in Pool} : \A i \in Pool : d >= g[i].res.duration

\* C8: when all W RunBenchmark calls succeed the aggregated request count is
\* the sum of the workers' request counts and the duration is the maximum of
\* the workers' durations, never less than any worker's.
C8_SumAndMax ==
    Aggregated =>
        /\ LastResult.requests = RequestsReported(Pool)
        /\ LastResult.duration = LongestDuration
        /\ \A i \in Pool : LastResult.duration >= g[i].res.duration

ByOrdinal == [k \in 1..Len(workers) |-> g[workers[k]].res]

\* C10: the result of runBenchmark does not depend on the order in which the
\* W responses arrive on resultCh: it is the result for the responses taken
\* in the order of the ordinals, both before the loop over resultCh (for the
\* order they arrived in) and in the result returned.
C10_OrderIndependent ==
    /\ (pc = "aggregate" /\ phase = "RunBenchmark"
          => Aggregate(Benchmark, resultCh, Len(workers))
               = Aggregate(Benchmark, ByOrdinal, Len(workers)))
    /\ (Aggregated
          => LastResult = Aggregate(BenchList[Len(results)], ByOrdinal, Len(workers)))

\* C10: the response of worker 1 arrived before the different one of worker 0.
C10_Witness ==
    /\ pc = "aggregate"
    /\ config.Workers = 2
    /\ g[0].res # g[1].res
    /\ g[0].res.duration > g[1].res.duration
    /\ resultCh = <<g[1].res, g[0].res>>

\* The sum over the workers in S of the field f of their answers.
RECURSIVE AnswerSum(_, _)
AnswerSum(f, S) ==
    IF S = {} THEN 0
    ELSE LET i == CHOOSE x \in S : TRUE IN g[i].res[f] + AnswerSum(f, S \ {i})

\* m is the arithmetic mean over the W workers of the field f of their
\* answers, in whole nanoseconds: the sum divided by W.
IsMeanOf(m, f) ==
    /\ m * config.Workers <= AnswerSum(f, Pool)
    /\ AnswerSum(f, Pool) < (m + 1) * config.Workers

\* Worker 0 and worker 1 answered as in the scenario.
ScenarioAnswers ==
    /\ config.Workers = 2
    /\ g[0].res \in ScenarioResponses /\ g[0].res.duration = Second
    /\ g[1].res \in ScenarioResponses /\ g[1].res.duration = 2 * Second

\* The throughput t is k requests per second.
PerSecond(t, k) ==
    /\ t.seconds[1] > 0
    /\ t.requests[1] = 0
    /\ t.requests[2] * t.seconds[2] = k * t.seconds[1]

EveryRpcSucceeded == \A k \in RpcKeys : rpc[k].n > 0 => rpc[k].st = "ok"

\* runBenchmarks went through its loop over the results and returned.
ThresholdChecked == reports > 0 /\ pc \in {"tearDown", "return", "done"}

\* Some benchmark's aggregated mean latency is at or above MaxLatency.
AtOrAboveMaxLatency ==
    /\ config.MaxLatency # Nil
    /\ \E k \in 1..Len(results) : results[k].meanLatency >= config.MaxLatency[1]

IsThresholdError(e) == e # Nil /\ e[1] = "MaxLatency"

\* C12: with MaxLatency configured and some benchmark's aggregated mean
\* latency at or above it, runBenchmarks returns a threshold error and Run
\* returns it after tearDown, even though every RPC succeeded; with
\* MaxLatency not configured, or every mean latency strictly below it, no
\* threshold error is raised.
C12_LatencyThreshold ==
    /\ (ThresholdChecked /\ AtOrAboveMaxLatency
          => /\ IsThresholdError(runErr)
             /\ (RunDone => ret[1].err = runErr /\ tornDown = 1))
    /\ (~AtOrAboveMaxLatency
          => /\ ~IsThresholdError(runErr)
             /\ (RunDone => ~IsThresholdError(ret[1].err)))

\* C12: every RPC of a suite of two benchmarks succeeded, the mean latency of
\* the second one is equal to MaxLatency, and Run returned the threshold error.
C12_Witness ==
    /\ RunDone
    /\ EveryRpcSucceeded
    /\ Len(results) = 2
    /\ config.MaxLatency # Nil
    /\ results[1].meanLatency < config.MaxLatency[1]
    /\ results[2].meanLatency = config.MaxLatency[1]
    /\ IsThresholdError(ret[1].err)

\* runWorkers has returned or has ended the process.
Finished == cpc \in {"returned", "exited"}

\* The suites whose task was launched.
LaunchedSuites == {s \in 1..NumSuites : tg[s].launches > 0}

\* The Run of the task of suite s, tearDown included, has returned.
RunReturned(s) == tg[s].pc \in {"send", "wgDone", "exited"}

\* The Run of the task of suite s has returned an error.
ReturnedError(s) == RunReturned(s) /\ tg[s].err # Nil

\* C13: runWorkers waits for all Worker Tasks: when it returns an error,
\* returns nil or ends the process, the Run of every task it launched
\* (tearDown included) has already returned.
C13_WaitsForAllTasks == Finished => \A s \in LaunchedSuites : RunReturned(s)

\* C14: if at least one Worker Task returns an error, runWorkers returns an
\* error that a task returned, the first one sent on errChan, and it never
\* reads an exit status nor ends the process with a task's exit code,
\* whatever another task reported before.
C14_FirstErrorNoStatuses ==
    /\ (Finished /\ (\E s \in LaunchedSuites : ReturnedError(s))
          => /\ outcome[1] = "error"
             /\ \E s \in LaunchedSuites : ReturnedError(s) /\ outcome[2] = tg[s].err
             /\ outcome[2] = errSent[1])
    /\ ((\E s \in LaunchedSuites : ReturnedError(s))
          => codesRead = 0 /\ outcome[1] # "exit")

\* C14: the task of suite 1 reported its status on codeChan, and runWorkers
\* returned the error of the task of suite 2 without a receive from codeChan.
C14_Witness ==
    /\ Len(tasks) >= 2
    /\ tg[1].pc = "exited" /\ tg[1].err = Nil
    /\ codeChan = <<0>>
    /\ outcome = <<"error", TaskError(2)>>
    /\ codesRead = 0

\* C15: the Coordinator ends with success (runWorkers returns nil) only if
\* every Worker Task was run, returned no error and reported the exit
\* status 0.
C15_SuccessOnlyIfAllSucceeded ==
    outcome[1] = "nil"
        => \A k \in 1..Len(tasks) :
              /\ RunReturned(tasks[k])
              /\ tg[tasks[k]].err = Nil
              /\ tg[tasks[k]].status = 0

\* C15: the tasks of two suites returned without an error and runWorkers
\* returned nil.
C15_Witness ==
    /\ outcome[1] = "nil"
    /\ Len(tasks) = 2
    /\ codesRead = 2
    /\ \A s \in 1..2 : tg[s].pc = "exited" /\ tg[s].err = Nil

\* The greatest exit status among the jobs of the tasks.
WorstStatus ==
    CHOOSE x \in {jobStatus[tasks[k]] : k \in 1..Len(tasks)} :
        \A k \in 1..Len(tasks) : x >= jobStatus[tasks[k]]

\* C16: when no Worker Task returns an error and the job of at least one
\* ends with an exit status that is not 0, the process ends with the
\* greatest exit status among the tasks (with 0 and 2: with 2).
C16_WorstExitStatus ==
    (/\ Finished
     /\ \A k \in 1..Len(tasks) : tg[tasks[k]].err = Nil
     /\ \E k \in 1..Len(tasks) : jobStatus[tasks[k]] # 0)
        => outcome = <<"exit", WorstStatus>>

\* The steps of a task's Run, in the order Run performs them.
TaskSteps == <<"run", "tearDown", "return">>

IsPrefix(a, b) == Len(a) <= Len(b) /\ \A i \in 1..Len(a) : a[i] = b[i]

\* The goroutine of the task of suite s was started and has not ended.
InFlight(s) == tg[s].pc \in {"Run", "tearDown", "return", "send", "wgDone"}

FunctionReturned(o) == op[o].pc \in {"returned", "send", "close", "exited"}

\* The operation of call o has resolved: its result is in the channel, or
\* the channel is closed.
Resolved(o) == FunctionReturned(o) /\ (op[o].pc \in {"close", "exited"})

\* The joiners among 1..n whose operation failed.
Failed(n) == {o \in 1..n : op[o].result # Nil}

C19_DoubleWaitSameResult ==
    \A o \in 1..NumOps :
        /\ (Len(waits[o]) >= 2 => waits[o][2] = waits[o][1])
        /\ (Len(waits[o]) >= 1 => CanReceive(o) \/ ENABLED OpGoroutine(o))

\* C20: with several operations launched, the first Join / Wait on a Joiner
\* / Waiter returns only after the function launched for it has returned,
\* and returns that function's own outcome: its error, or nil.
C20_FirstWaitOwnOutcome ==
    \A o \in 1..NumOps :
        Len(waits[o]) >= 1 => FunctionReturned(o) /\ waits[o][1] = op[o].result

\* C20: of three operations launched, the first failed and was joined, the
\* second succeeded and was joined, the third is still running.
C20_Witness ==
    /\ forked = 3
    /\ waits[1] = <<OpError(1)>>
    /\ waits[2] = <<Nil>>
    /\ op[3].pc = "f"

\* The outcome of the function of call o is recorded in its progress scope:
\* report.Done() or report.Error(err) was called.
OutcomeRecorded(o) == op[o].report \in {"done", "error"}

\* C21: when Context.Close has been called on the root Context, the outcome
\* of every function launched with Fork is recorded in its progress scope
\* (report.Done or report.Error), also of those whose Joiner is never
\* joined.
C21_RecordedBeforeClose ==
    stopped /\ scopeKind = "Fork" => \A o \in 1..forked : OutcomeRecorded(o)

\* The address of worker ordinal i of the task: worker-<i> of the task's own
\* run id.
AddressOf(i) == <<<<"worker", i>>, <<TestID, 1>>>>

\* The handles of the whole pool were resolved, each by one Dial, in the
\* order of the ordinals.
PoolResolved ==
    /\ workers = [k \in 1..config.Workers |-> k - 1]
    /\ dialLog = [k \in 1..config.Workers |-> AddressOf(k - 1)]
    /\ \A i \in Ordinals : dialed[i] = IF i \in Pool THEN 1 ELSE 0

\* The RPCs issued so far went to workers of the pool.
CalledInPool == \A k \in RpcKeys : rpc[k].n > 0 => k[3] \in Pool

\* C22: the getWorkers call that sets t.workers dials W times, the ordinals
\* 0..W-1 in order, each at the address worker-<i> of the task's own run id;
\* once t.workers is set no step of the task (no later getWorkers call) dials
\* again or changes the list, and every RPC goes to a handle of that list: over
\* the whole task each ordinal is dialed exactly once.
C22_HandlesMemoized ==
    /\ [](workers # Nil => PoolResolved)
    /\ [](CalledInPool /\ (workers = Nil => \A k \in RpcKeys : rpc[k].n = 0))
    /\ [][workers # Nil => UNCHANGED <<workers, dialed, dialLog>>]_vars

\* C22: a task of two workers ran to its end without an error: getWorkers was
\* called in setupSuite, setupWorkers, setupBenchmark and runBenchmark, and
\* the two ordinals were dialed once each, in order.
C22_Witness ==
    /\ config.Workers = 2
    /\ ret # <<>>
    /\ runErr = Nil
    /\ dialLog = <<AddressOf(0), AddressOf(1)>>
    /\ \A i \in Pool : Rpc("RunBenchmark", BenchList[1], i).n = 1

\* The error of the Dial that failed for ordinal f.
DialError(f) == Err("Dial", NoBenchmark, f)

\* run returned the error of a Dial.
DialFailed == runErr # Nil /\ runErr[1] = "Dial"

\* C23: when the Dial of an ordinal fails, getWorkers returns that error and
\* its caller returns it (it is the error of run, and of Run); t.workers is left
\* unset, no handle made before the failure is kept, no ordinal after the one
\* that failed is dialed, and no RPC is issued to any worker.
C23_DialFailureNoPool ==
    /\ (dialLog # <<>> /\ workers = Nil => runErr = DialError(Len(dialLog) - 1))
    /\ (DialFailed =>
           /\ workers = Nil
           /\ dialLog = [k \in 1..(runErr[3] + 1) |-> AddressOf(k - 1)]
           /\ \A k \in RpcKeys : rpc[k].n = 0
           /\ (ret # <<>> => ret[1].err = runErr))

\* C23: in a task of two workers the Dial of ordinal 1 failed after the Dial
\* of ordinal 0 succeeded, and Run has returned.
C23_Witness ==
    /\ config.Workers = 2
    /\ ret # <<>>
    /\ ret[1].err = DialError(1)
    /\ Len(dialLog) = 2

\* Every SetupBenchmark and RunBenchmark call of every configured benchmark
\* was made on every worker of the pool and returned without an error.
BenchmarksSucceeded ==
    \A k \in 1..Len(BenchList), i \in Pool :
        /\ Rpc("SetupBenchmark", BenchList[k], i).st = "ok"
        /\ Rpc("RunBenchmark", BenchList[k], i).st = "ok"

\* Some RPC of a phase returned an error.
PhaseRpcFailed == \E k \in RpcKeys : rpc[k].st = "fail"

\* C24: the table is written at most once per task; when it is written every
\* SetupBenchmark and RunBenchmark call of every configured benchmark has
\* returned without an error, and no RPC of any phase has failed; a threshold
\* error is raised only after the table was written.
C24_ReportOnceAfterSuccess ==
    /\ reports <= 1
    /\ (reports = 1 => BenchmarksSucceeded)
    /\ (PhaseRpcFailed => reports = 0)
    /\ (IsThresholdError(runErr) => reports = 1)

\* The goroutine of call o is past the statements that record the outcome of
\* its function in the scope.
PastRecord(o) == op[o].pc \in {"send", "close", "exited"}

\* C25: once the goroutine of Context.Run is past its recording of the
\* outcome, the status scope is marked done if the function returned nil, and
\* has its last message decorated with the error if the function returned an
\* error, whether or not the function ever reported a message.
C25_StatusDoneOrDecorated ==
    scopeKind = "Run" =>
        \A o \in 1..NumOps :
            PastRecord(o) =>
                IF op[o].result = Nil
                THEN op[o].report = "done"
                ELSE op[o].report = "message and error"

\* The number of calls of phase ph for benchmark b made on worker i.
Calls(ph, b, i) == Rpc(ph, b, i).n

\* The benchmarks the configuration asks for, in the order of the suite.
Configured ==
    IF config.Benchmark # NoBenchmark THEN {config.Benchmark} ELSE 1..NumBenchmarks

\* SetupSuite has returned and so has every SetupWorker call.
SuiteAndWorkersSetUp ==
    /\ Rpc("SetupSuite", NoBenchmark, 0).st = "ok"
    /\ \A i \in Pool : Calls("SetupWorker", NoBenchmark, i) = 1
                        /\ HasReturned("SetupWorker", NoBenchmark, i)

\* C26: SetupBenchmark and RunBenchmark are called for configured benchmarks
\* only (in single-benchmark mode: the one configured and no other of the
\* suite), at most once per worker, and only after SetupSuite and every
\* SetupWorker call have returned; RunBenchmark of a benchmark comes after
\* its SetupBenchmark calls, and the calls of a benchmark after those of the
\* benchmark registered before it; when the loop over the benchmarks has
\* ended, each configured benchmark was set up and run once on every worker.
C26_ConfiguredBenchmarksOnly ==
    /\ \A b \in 1..NumBenchmarks, i \in Ordinals :
          /\ Calls("SetupBenchmark", b, i) <= 1
          /\ Calls("RunBenchmark", b, i) <= 1
          /\ (Calls("SetupBenchmark", b, i) > 0 \/ Calls("RunBenchmark", b, i) > 0
                => b \in Configured /\ i \in Pool /\ SuiteAndWorkersSetUp)
          /\ (Calls("RunBenchmark", b, i) > 0
                => \A j \in Pool : HasReturned("SetupBenchmark", b, j))
    /\ \A b \in Configured, c \in Configured :
          b < c /\ Issued("SetupBenchmark", c)
             => \A i \in Pool : Calls("RunBenchmark", b, i) = 1
                                 /\ HasReturned("RunBenchmark", b, i)
    /\ (reports > 0
          => \A b \in Configured, i \in Pool :
                Calls("SetupBenchmark", b, i) = 1 /\ Calls("RunBenchmark", b, i) = 1)

\* C26: a task of two workers configured with the last benchmark of the
\* suite has written its report: the benchmark was set up and run on both
\* workers, the first benchmark on none.
C26_Witness ==
    /\ config.Workers = 2
    /\ config.Benchmark = NumBenchmarks
    /\ reports = 1
    /\ \A i \in Pool : /\ Calls("SetupBenchmark", NumBenchmarks, i) = 1
                        /\ Calls("RunBenchmark", NumBenchmarks, i) = 1
                        /\ Calls("SetupBenchmark", 1, i) = 0
                        /\ Calls("RunBenchmark", 1, i) = 0

\* Something was recorded in the scope of call o for the outcome of its
\* function: report.Done(), report.Error(err) or report.Update(message <- error).
Recorded(o) == op[o].report \in {"done", "error", "message and error"}

\* The goroutine of call o stands between the return of its function and
\* its own end.
Delivering(o) == op[o].pc \in {"returned", "send", "close"}

\* C27: the goroutine of Fork / Run never blocks after its function returned
\* (its next step can always be taken, joined or not); its channel gets at
\* most one value, the error of a function that failed, and is closed once,
\* after the function returned and after the send; the outcome is recorded in
\* the scope before the send and the close, so a Join / Wait that has
\* returned finds it recorded.
C27_DeliveryNeverBlocks ==
    \A o \in 1..NumOps :
        /\ (Delivering(o) => ENABLED OpGoroutine(o))
        /\ chans[Chan(o)].sends <= 1
        /\ chans[Chan(o)].closes <= 1
        /\ (chans[Chan(o)].sends = 1 => FunctionReturned(o) /\ op[o].result # Nil)
        /\ (chans[Chan(o)].closes = 1
              => /\ op[o].pc = "exited"
                 /\ (op[o].result # Nil => chans[Chan(o)].sends = 1))
        /\ (PastRecord(o) => Recorded(o))
        /\ (Len(waits[o]) >= 1 => Recorded(o))

\* The Run of the task of suite s has returned to its goroutine in runWorkers.
RunHasReturned(s) == tg[s].pc \in {"send", "wgDone", "exited"}

\* The goroutine of the task of suite s is past its send.
PastSend(s) == tg[s].pc \in {"wgDone", "exited"}

\* C29: the Run of every task returns status 0, with or without an error; no
\* value other than 0 is ever in codeChan and runWorkers never ends the process
\* through os.Exit(code); a task that failed has sent its error on errChan,
\* and when runWorkers ends after it, it ends by returning an error.
C29_NoExitCodePath ==
    /\ \A s \in 1..NumSuites : RunHasReturned(s) => tg[s].status = 0
    /\ \A k \in 1..Len(codeChan) : codeChan[k] = 0
    /\ outcome[1] # "exit"
    /\ cpc # "exited"
    /\ \A s \in 1..NumSuites :
          PastSend(s) /\ tg[s].err # Nil
             => /\ \E k \in 1..Len(errSent) : errSent[k] = tg[s].err
                /\ outcome[1] # "nil"

\* C29: of two tasks the first failed and runWorkers returned its error; the
\* second succeeded, its job ending with exit status 2, and its Run returned
\* status 0.
C29_Witness ==
    /\ Len(tasks) = 2
    /\ outcome = <<"error", TaskError(1)>>
    /\ tg[2].pc = "exited"
    /\ tg[2].err = Nil
    /\ jobStatus[2] = 2
    /\ tg[2].status = 0

\* The job createWorker(i) of the task of suite s started carries the
\* environment of that call: the ordinal i and the task's own run id.
OwnEnv(s, i) ==
    LET e == started[s][i][1].Env IN
    /\ e["benchmarkWorkerEnv"] = Sprintf(i)
    /\ e["NamespaceEnv"] = <<TestID, s>>
    /\ e["benchmarkJobEnv"] = <<TestID, s>>

\* C28: every job started by createWorker(i) of a task carries, when it is
\* started, an environment whose worker-ordinal entry is i and whose
\* namespace and job entries are the run id of that task, however the
\* createWorker calls of the task and of the tasks of the other suites
\* interleave, with the configured Env nil or not.
C28_JobEnvOwn ==
    \A s \in 1..NumSuites, i \in Ordinals : started[s][i] # <<>> => OwnEnv(s, i)

====
